---- MODULE Spec2Model ----
(***************************************************************************)
(* Model of the XBee API-frame codec (src/xbee/xbee.py), its template      *)
(* driven packer/unpacker (src/xbee/xbee_templates.py) and the             *)
(* RocketControl session on top of it (src/nasa_sl.py).                    *)
(*                                                                         *)
(* Bytes are naturals in 0..255, byte strings are sequences of bytes,      *)
(* time is counted in milliseconds.                                        *)
(***************************************************************************)
EXTENDS Integers, Sequences, FiniteSets, TLC

(***************************************************************************)
(* Bounds of the model.                                                    *)
(***************************************************************************)
\* longest raw payload the codec specification encodes
MaxLen == 2
\* the clock stops advancing here
MaxTime == 300
\* number of frame-ID allocations followed
MaxAlloc == 520
\* how long the pacing specification follows the clock, in ms
MaxPacingTime == 100
\* number of frames the peer sends in the session specification
MaxFrames == 3

(***************************************************************************)
(* Program constants.                                                      *)
(***************************************************************************)
\* self.conn.timeout = 0.100 (seconds), in ms
conn_timeout == 100
\* self.frame_delay = 0.010 (seconds), in ms
frame_delay == 10
\* frame delimiter
Delimiter == 126
\* escape byte 0x7D
EscapeByte == 125
\* XON 0x11
XonByte == 17
\* XOFF 0x13
XoffByte == 19
\* mask of the escape: byte ^ 0x20
EscapeXor == 32
\* self._next_frame = 0x01
FirstFrameId == 1
\* if self._next_frame > 0xFF
LastFrameId == 255

Byte == 0..255

Max2(a, b) == IF a >= b THEN a ELSE b

\* b ^ 0x20 on one byte: toggles bit 5
Xor20(b) == IF (b \div EscapeXor) % 2 = 1 THEN b - EscapeXor ELSE b + EscapeXor

\* b with bit k (0..7) flipped
RECURSIVE Pow2(_)
Pow2(k) == IF k = 0 THEN 1 ELSE 2 * Pow2(k - 1)
FlipBit(b, k) == IF (b \div Pow2(k)) % 2 = 1 THEN b - Pow2(k) ELSE b + Pow2(k)

\* np.frombuffer(message, dtype='uint8').sum()
RECURSIVE SumBytes(_)
SumBytes(s) == IF s = <<>> THEN 0 ELSE Head(s) + SumBytes(Tail(s))

\* message[:-1]
ButLast(s) == SubSeq(s, 1, Len(s) - 1)
\* message[-1]
Last(s) == s[Len(s)]

(***************************************************************************)
(* Frame codec: checksum, escaping, framing (src/xbee/xbee.py).            *)
(***************************************************************************)
\* XBee._generate_checksum: the one-byte string 0xFF - (sum & 0xFF)
GenerateChecksumMutant(message) == << (256 - (SumBytes(message) % 256)) % 256 >>
_generate_checksum(message) == << 255 - (SumBytes(message) % 256) >>

\* XBee._validate_checksum, for a message of at least one byte
ValidateChecksumMutant(message) == SumBytes(message) % 128 = 127
_validate_checksum(message) ==
    (255 - (SumBytes(ButLast(message)) % 256)) = Last(message)

\* the test of XBee._escape: the four reserved bytes
NeedsEscapeMutant(byte) == byte = Delimiter \/ byte = XonByte \/ byte = XoffByte
NeedsEscape(byte) ==
    byte = Delimiter \/ byte = EscapeByte \/ byte = XonByte \/ byte = XoffByte

\* XBee._escape
RECURSIVE _escape(_)
_escape(message) ==
    IF message = <<>> THEN <<>>
    ELSE (IF NeedsEscape(Head(message))
            THEN << EscapeByte, Xor20(Head(message)) >>
            ELSE << Head(message) >>) \o _escape(Tail(message))

\* XBee._prepare_write
PrepareWriteMutant(message) ==
    LET length == Len(message) + 1
    IN  << Delimiter, (length \div 256) % 256, length % 256 >>
            \o _escape(message \o _generate_checksum(message))
_prepare_write(message) ==
    LET length == Len(message)
        l_upr == (length \div 256) % 256
        l_lwr == length % 256
        frame == << Delimiter, l_upr, l_lwr >>
        msg_complete == _escape(message \o _generate_checksum(message))
    IN  frame \o msg_complete

(***************************************************************************)
(* Values of frame fields and arguments.  A value carries its Python type: *)
(* an int is <<n>> tagged "int", a bytes object the sequence of its bytes  *)
(* tagged "bytes", a str the sequence of its code points tagged "str".     *)
(***************************************************************************)
IntVal(n) == [t |-> "int", v |-> << n >>]
BytesVal(s) == [t |-> "bytes", v |-> s]
StrVal(s) == [t |-> "str", v |-> s]
\* the "" every slot of result_array starts with
EmptyStr == StrVal(<<>>)

\* n as `width` big-endian bytes (struct's ">" formats)
RECURSIVE ToBigEndian(_, _)
ToBigEndian(n, width) ==
    IF width = 0 THEN <<>> ELSE Append(ToBigEndian(n \div 256, width - 1), n % 256)

\* the unsigned integer held by big-endian bytes
RECURSIVE FromBigEndian(_)
FromBigEndian(s) ==
    IF s = <<>> THEN 0 ELSE FromBigEndian(ButLast(s)) * 256 + Last(s)

(***************************************************************************)
(* Schema registry: Templates.templates (src/xbee/xbee_templates.py).      *)
(* templates[tag] is the Python list of the tag: element 1 is the name,    *)
(* element c + 1 is the field the code reads as template[c].               *)
(***************************************************************************)
TemplateTags == {8, 9, 16, 17, 23, 136, 137, 138, 139, 144, 145, 151}

templates == [tag \in TemplateTags |->
    CASE tag = 8 -> <<
            "AT Command Frame",
            <<"Frame ID", 4, 1, "uint8_t">>,
            <<"AT Command", 5, 2, "str">>,
            <<"Parameter Value", 7, -1, "bytes", "optional">> >>
      [] tag = 9 -> <<
            "AT Command Queue Parameter Value Frame",
            <<"Frame ID", 4, 1, "uint8_t">>,
            <<"AT Command", 5, 2, "str">>,
            <<"Parameter Value", 7, -1, "optional">> >>
      [] tag = 16 -> <<
            "Transmit Request Frame",
            <<"Frame ID", 4, 1, "uint8_t">>,
            <<"Destination Address", 5, 8, "uint64_t">>,
            <<"Reserved", 13, 2, "uint16_t">>,
            <<"Broadcast Radius", 15, 1, "uint8_t">>,
            <<"Transmit Options", 16, 1, "uint8_t">>,
            <<"RF data", 17, -1, "bytes">> >>
      [] tag = 17 -> <<
            "Explicit Addressing Command Frame",
            <<"Frame ID", 4, 1, "uint8_t">>,
            <<"Destination Address", 5, 8, "uint64_t">>,
            <<"Reserved", 13, 2, "uint16_t">>,
            <<"Source endpoint", 15, 1, "uint8_t">>,
            <<"Destination endpoint", 16, 1, "uint8_t">>,
            <<"Cluster ID", 17, 2, "uint16_t">>,
            <<"Profile ID", 19, 2, "uint16_t">>,
            <<"Broadcast Radius", 21, 1, "uint8_t">>,
            <<"Transmit Options", 22, 1, "uint8_t">>,
            <<"RF data", 23, -1, "bytes">> >>
      [] tag = 23 -> <<
            "Remote AT Command Request Frame",
            <<"Frame ID", 4, 1, "uint8_t">>,
            <<"Destination Address", 5, 8, "uint64_t">>,
            <<"Reserved", 13, 2, "uint16_t">>,
            <<"Remote Command Options", 15, 1, "uint8_t">>,
            <<"AT command", 16, 2, "str">>,
            <<"Command Parameter", 18, -1, "bytes", "optional">> >>
      [] tag = 136 -> <<
            "AT Command Response Frame",
            <<"Frame ID", 4, 1, "uint8_t">>,
            <<"AT Command", 5, 2, "str">>,
            <<"Command Status", 7, 1, "uint8_t">>,
            <<"Command Data", 8, -1, "bytes", "optional">> >>
      [] tag = 137 -> <<
            "TX Status Frame",
            <<"Frame ID", 4, 1, "uint8_t">>,
            <<"Status", 5, 1, "uint8_t">> >>
      [] tag = 138 -> <<
            "Modem Status Frame",
            <<"Status", 4, 1, "uint8_t">> >>
      [] tag = 139 -> <<
            "Transmit Status Frame",
            <<"Frame ID", 4, 1, "uint8_t">>,
            <<"Reserved", 5, 2, "uint16_t">>,
            <<"Transmit Retry Count", 7, 1, "uint8_t">>,
            <<"Delivery Status", 8, 1, "uint8_t">>,
            <<"Discovery Status", 9, 1, "uint8_t">> >>
      [] tag = 144 -> <<
            "Receive Packet Frame",
            <<"Source Address", 4, 8, "uint64_t">>,
            <<"Reserved", 12, 2, "uint16_t">>,
            <<"Receive options", 14, 1, "uint8_t">>,
            <<"Received data", 15, -1, "bytes">> >>
      [] tag = 145 -> <<
            "Explicit Rx Indicator Frame",
            <<"Source Address", 4, 8, "uint64_t">>,
            <<"Reserved", 12, 2, "uint16_t">>,
            <<"Source endpoint", 14, 1, "uint8_t">>,
            <<"Destination endpoint", 15, 1, "uint8_t">>,
            <<"Cluster ID", 16, 2, "uint16_t">>,
            <<"Profile ID", 18, 2, "uint16_t">>,
            <<"Receive options", 20, 1, "uint8_t">>,
            <<"Received data", 21, -1, "bytes">> >>
      [] tag = 151 -> <<
            "Remote Command Response Frame",
            <<"Frame ID", 4, 1, "uint8_t">>,
            <<"Destination Address", 5, 8, "uint64_t">>,
            <<"Reserved", 13, 2, "uint16_t">>,
            <<"AT command", 15, 2, "str">>,
            <<"Command Status", 17, 1, "uint8_t">>,
            <<"Command Parameter", 18, -1, "bytes">> >>]

\* template[component] of the list registered for tag, component >= 1
FieldMutant(tag, component) ==
    IF component = 2 THEN [templates[tag][component + 1] EXCEPT ![2] = @ + 1]
    ELSE templates[tag][component + 1]
Field(tag, component) == templates[tag][component + 1]
\* len(template)
TemplateLen(tag) == Len(templates[tag])
\* template[component][3]; template[0] is the name, whose [3] is a character
\* and so no data type
FieldType(tag, component) ==
    IF component = 0 THEN "char" ELSE Field(tag, component)[4]

\* Templates.can_process, on a message of at least one byte
CanProcessMutant(message) == message[1] \in Byte
can_process(message) == message[1] \in TemplateTags

(***************************************************************************)
(* Python's struct module with the ">" prefix.  A format string is the     *)
(* sequence of its items: "B", "H", "Q" (n = 1) and "<n>c".                *)
(***************************************************************************)
FmtItem(code, n) == [code |-> code, n |-> n]

ItemSize(item) ==
    CASE item.code = "B" -> 1
      [] item.code = "H" -> 2
      [] item.code = "Q" -> 8
      [] item.code = "c" -> item.n

\* "-1c" is no format: struct.error
FormatValid(fmt) == \A i \in 1..Len(fmt) : fmt[i].n >= 0

RECURSIVE CalcSize(_)
CalcSize(fmt) == IF fmt = <<>> THEN 0 ELSE ItemSize(Head(fmt)) + CalcSize(Tail(fmt))

\* the values one item yields from the bytes it covers
RECURSIVE SingleBytes(_)
SingleBytes(s) ==
    IF s = <<>> THEN <<>> ELSE << BytesVal(<< Head(s) >>) >> \o SingleBytes(Tail(s))

ItemValues(item, chunk) ==
    IF item.code = "c" THEN SingleBytes(chunk) ELSE << IntVal(FromBigEndian(chunk)) >>

RECURSIVE UnpackItems(_, _)
UnpackItems(fmt, message) ==
    IF fmt = <<>> THEN <<>>
    ELSE LET size == ItemSize(Head(fmt))
         IN  ItemValues(Head(fmt), SubSeq(message, 1, size))
                \o UnpackItems(Tail(fmt), SubSeq(message, size + 1, Len(message)))

\* struct.unpack(fmt, message)
StructUnpack(fmt, message) ==
    IF ~FormatValid(fmt) \/ CalcSize(fmt) # Len(message)
    THEN [err |-> "struct.error", data |-> <<>>]
    ELSE [err |-> "none", data |-> UnpackItems(fmt, message)]

\* one slot per argument struct.pack expects: "2c" is two "c" slots
RECURSIVE Slots(_)
SlotsOf(item) == [i \in 1..(IF item.code = "c" THEN item.n ELSE 1) |-> item.code]
Slots(fmt) == IF fmt = <<>> THEN <<>> ELSE SlotsOf(Head(fmt)) \o Slots(Tail(fmt))

SlotAccepts(code, arg) ==
    CASE code = "c" -> arg.t = "bytes" /\ Len(arg.v) = 1
      [] code = "B" -> arg.t = "int" /\ arg.v[1] \in 0..255
      [] code = "H" -> arg.t = "int" /\ arg.v[1] \in 0..65535
      \* every natural of the model is below 2^64
      [] code = "Q" -> arg.t = "int" /\ arg.v[1] >= 0

SlotBytes(code, arg) ==
    CASE code = "c" -> arg.v
      [] code = "B" -> ToBigEndian(arg.v[1], 1)
      [] code = "H" -> ToBigEndian(arg.v[1], 2)
      [] code = "Q" -> ToBigEndian(arg.v[1], 8)

RECURSIVE PackSlots(_, _)
PackSlots(slots, out_args) ==
    IF slots = <<>> THEN <<>>
    ELSE SlotBytes(Head(slots), Head(out_args)) \o PackSlots(Tail(slots), Tail(out_args))

\* struct.pack(fmt, *out_args)
StructPack(fmt, out_args) ==
    LET slots == Slots(fmt)
    IN  IF ~FormatValid(fmt) \/ Len(slots) # Len(out_args)
           \/ \E i \in 1..Len(slots) : ~SlotAccepts(slots[i], out_args[i])
        THEN [err |-> "struct.error", bytes |-> <<>>]
        ELSE [err |-> "none", bytes |-> PackSlots(slots, out_args)]

(***************************************************************************)
(* Field packer / unpacker (src/xbee/xbee_templates.py).                   *)
(***************************************************************************)
\* is_optional of generate_struct_decode
IsOptional(field) == Len(field) >= 5 /\ field[5] = "optional"

\* byte_length of generate_struct_decode for a bytes or str field
DecodeByteLength(field, message) ==
    IF IsOptional(field) \/ field[3] = -1
    THEN Len(message) + 3 - field[2]
    ELSE field[3]

\* n * bytes([component]); a negative n gives b""
Repeat(x, n) == [i \in 1..(IF n > 0 THEN n ELSE 0) |-> x]

\* what one turn of the loop of generate_struct_decode appends to
\* type_string and mask_string
DecodeComponent(tag, component, message) ==
    LET field == Field(tag, component)
        component_type == field[4]
        byte_length == DecodeByteLength(field, message)
    IN  CASE component_type = "bytes" \/ component_type = "str" ->
                IF ~(IsOptional(field) /\ byte_length = 0)
                THEN [type_string |-> << FmtItem("c", byte_length) >>,
                      mask_string |-> Repeat(component, byte_length)]
                ELSE [type_string |-> <<>>, mask_string |-> <<>>]
          [] component_type = "uint64_t" ->
                [type_string |-> << FmtItem("Q", 1) >>, mask_string |-> << component >>]
          [] component_type = "uint16_t" ->
                [type_string |-> << FmtItem("H", 1) >>, mask_string |-> << component >>]
          [] component_type = "uint8_t" ->
                [type_string |-> << FmtItem("B", 1) >>, mask_string |-> << component >>]
          [] OTHER -> [type_string |-> <<>>, mask_string |-> <<>>]

RECURSIVE DecodeFrom(_, _, _)
DecodeFrom(tag, component, message) ==
    IF component >= TemplateLen(tag)
    THEN [type_string |-> <<>>, mask_string |-> <<>>]
    ELSE LET this == DecodeComponent(tag, component, message)
             rest == DecodeFrom(tag, component + 1, message)
         IN  [type_string |-> this.type_string \o rest.type_string,
              mask_string |-> this.mask_string \o rest.mask_string]

\* Templates.generate_struct_decode, for a message can_process accepts
generate_struct_decode(message) ==
    LET fields == DecodeFrom(message[1], 1, message)
    IN  [type_string |-> << FmtItem("B", 1) >> \o fields.type_string,
         mask_string |-> << 0 >> \o fields.mask_string]

\* bytes.decode('utf8') of one- and two-byte sequences; anything else in the
\* two bytes of a str field is no UTF-8
RECURSIVE Utf8Decode(_)
Utf8Decode(s) ==
    IF s = <<>> THEN [err |-> "none", v |-> <<>>]
    ELSE IF s[1] < 128
         THEN LET rest == Utf8Decode(Tail(s))
              IN  [err |-> rest.err,
                   v |-> IF rest.err = "none" THEN << s[1] >> \o rest.v ELSE <<>>]
    ELSE IF s[1] \in 194..223 /\ Len(s) >= 2 /\ s[2] \in 128..191
         THEN LET rest == Utf8Decode(Tail(Tail(s)))
              IN  [err |-> rest.err,
                   v |-> IF rest.err = "none"
                         THEN << (s[1] - 192) * 64 + (s[2] - 128) >> \o rest.v
                         ELSE <<>>]
    ELSE [err |-> "UnicodeDecodeError", v |-> <<>>]

\* b''.join(values)
RECURSIVE JoinBytes(_)
JoinBytes(values) ==
    IF values = <<>> THEN <<>> ELSE Head(values).v \o JoinBytes(Tail(values))

\* values = [data_array[data_idx] for data_idx in indexes[0]]
RECURSIVE MaskedValues(_, _, _)
MaskedValues(data_array, np_mask, component_idx) ==
    IF np_mask = <<>> THEN <<>>
    ELSE (IF Head(np_mask) = component_idx THEN << Head(data_array) >> ELSE <<>>)
            \o MaskedValues(Tail(data_array), Tail(np_mask), component_idx)

RECURSIVE SeqMax(_)
SeqMax(s) == IF Len(s) = 1 THEN s[1] ELSE Max2(Head(s), SeqMax(Tail(s)))

\* one turn of the loop of unpack_message: the entry of result_array, or the
\* exception the turn raises
UnpackComponent(tag, component_idx, values) ==
    LET type == FieldType(tag, component_idx)
    IN  IF Len(values) > 1
        THEN CASE type = "str" ->
                    LET d == Utf8Decode(JoinBytes(values))
                    IN  [err |-> d.err, val |-> StrVal(d.v)]
               [] type = "bytes" -> [err |-> "none", val |-> BytesVal(JoinBytes(values))]
               [] OTHER -> [err |-> "none", val |-> EmptyStr]
        ELSE IF values = <<>>
             THEN [err |-> "IndexError", val |-> EmptyStr]
             ELSE [err |-> "none", val |-> values[1]]

RECURSIVE UnpackFrom(_, _, _, _, _)
UnpackFrom(tag, component_idx, last, data_array, np_mask) ==
    IF component_idx > last THEN [err |-> "none", frame |-> <<>>]
    ELSE LET this == UnpackComponent(tag, component_idx,
                        MaskedValues(data_array, np_mask, component_idx))
         IN  IF this.err # "none" THEN [err |-> this.err, frame |-> <<>>]
             ELSE LET rest == UnpackFrom(tag, component_idx + 1, last, data_array, np_mask)
                  IN  [err |-> rest.err,
                       frame |-> IF rest.err = "none"
                                 THEN << this.val >> \o rest.frame ELSE <<>>]

\* Templates.unpack_message: the list of field values, or the exception
unpack_message(message) ==
    IF message = <<>> THEN [err |-> "IndexError", frame |-> <<>>]
    ELSE IF ~can_process(message) THEN [err |-> "AssertionError", frame |-> <<>>]
    ELSE LET gen == generate_struct_decode(message)
             unpacked == StructUnpack(gen.type_string, message)
         IN  IF unpacked.err # "none" THEN [err |-> unpacked.err, frame |-> <<>>]
             ELSE UnpackFrom(message[1], 0, SeqMax(gen.mask_string),
                             unpacked.data, gen.mask_string)

\* Python's None
NoneVal == [t |-> "None", v |-> <<>>]

\* Templates.explain_message: the dict as the sequence of its items, "Name"
\* first, then one item per field of the template; or the exception
ExplainMessageMutant(message) ==
    LET u == unpack_message(message)
    IN  IF u.err # "none" THEN [err |-> u.err, explanation |-> <<>>]
        ELSE [err |-> "none",
              explanation |->
                << [key |-> "Name", val |-> templates[message[1]][1]] >>
                \o [i \in 1..(TemplateLen(message[1]) - 1) |->
                        [key |-> Field(message[1], i)[1],
                         val |-> IF Len(u.frame) > i THEN u.frame[i + 1]
                                 ELSE BytesVal(<<>>)]]]
explain_message(message) ==
    LET data_array == unpack_message(message)
    IN  IF data_array.err # "none" THEN [err |-> data_array.err, explanation |-> <<>>]
        ELSE LET template == templates[message[1]]
             IN  [err |-> "none",
                  explanation |->
                    << [key |-> "Name", val |-> template[1]] >>
                    \o [i \in 1..(Len(template) - 1) |->
                            [key |-> template[i + 1][1],
                             val |-> IF Len(data_array.frame) > i
                                     THEN data_array.frame[i + 1]
                                     ELSE NoneVal]]]

\* what one turn of the loop of generate_struct_encode appends to type_string
EncodeComponent(tag, component, arg) ==
    LET component_type == FieldType(tag, component)
    IN  CASE component_type = "bytes" \/ component_type = "str" ->
                << FmtItem("c", IF arg.t = "bytes" THEN Len(arg.v) ELSE 1) >>
          [] component_type = "uint64_t" -> << FmtItem("Q", 1) >>
          [] component_type = "uint16_t" -> << FmtItem("H", 1) >>
          [] component_type = "uint8_t" -> << FmtItem("B", 1) >>
          [] OTHER -> <<>>

RECURSIVE EncodeFrom(_, _, _)
EncodeFrom(tag, component, args) ==
    IF component >= Len(args) THEN [err |-> "none", type_string |-> <<>>]
    \* template[component] past the end of the template list
    ELSE IF component >= TemplateLen(tag) THEN [err |-> "IndexError", type_string |-> <<>>]
    ELSE LET rest == EncodeFrom(tag, component + 1, args)
         IN  [err |-> rest.err,
              type_string |-> IF rest.err = "none"
                              THEN EncodeComponent(tag, component, args[component + 1])
                                      \o rest.type_string
                              ELSE <<>>]

\* Templates.generate_struct_encode, args[1] being the int tag (Python's
\* args[0]) of a registered template
generate_struct_encode(args) ==
    LET fields == EncodeFrom(args[1].v[1], 1, args)
    IN  [err |-> fields.err,
         type_string |-> IF fields.err = "none"
                         THEN << FmtItem("B", 1) >> \o fields.type_string ELSE <<>>]

\* the struct arguments pack_message makes of one argument
OutArgs(tag, arg_idx, arg) ==
    CASE arg.t = "str" \/ arg.t = "bytes" -> SingleBytes(arg.v)
      [] arg.t = "int" /\ FieldType(tag, arg_idx) = "bytes" -> << BytesVal(arg.v) >>
      [] OTHER -> << arg >>

\* sub_arg.encode('ascii') and bytes([arg]) raise on what is no ASCII / no byte
OutArgsError(tag, arg_idx, arg) ==
    CASE arg.t = "str" ->
            IF \E i \in 1..Len(arg.v) : arg.v[i] > 127 THEN "UnicodeEncodeError" ELSE "none"
      [] arg.t = "int" /\ FieldType(tag, arg_idx) = "bytes" ->
            IF arg.v[1] > 255 THEN "ValueError" ELSE "none"
      [] OTHER -> "none"

RECURSIVE OutArgsFrom(_, _, _)
OutArgsFrom(tag, arg_idx, args) ==
    IF arg_idx >= Len(args) THEN [err |-> "none", out_args |-> <<>>]
    ELSE LET e == OutArgsError(tag, arg_idx, args[arg_idx + 1])
         IN  IF e # "none" THEN [err |-> e, out_args |-> <<>>]
             ELSE LET rest == OutArgsFrom(tag, arg_idx + 1, args)
                  IN  [err |-> rest.err,
                       out_args |-> IF rest.err = "none"
                                    THEN OutArgs(tag, arg_idx, args[arg_idx + 1])
                                            \o rest.out_args
                                    ELSE <<>>]

\* Templates.pack_message(*args), args[1] being an int tag in 0..255: the
\* payload bytes, or the exception
pack_message(args) ==
    IF args[1].v[1] \notin TemplateTags THEN [err |-> "AssertionError", bytes |-> <<>>]
    ELSE LET tag == args[1].v[1]
             gen == generate_struct_encode(args)
             out == OutArgsFrom(tag, 0, args)
         IN  IF gen.err # "none" THEN [err |-> gen.err, bytes |-> <<>>]
             ELSE IF out.err # "none" THEN [err |-> out.err, bytes |-> <<>>]
             ELSE StructPack(gen.type_string, out.out_args)

(***************************************************************************)
(* State.                                                                  *)
(***************************************************************************)
VARIABLES
    now,            \* time.time(), in ms
    wire,           \* bytes the peer has sent that have not reached the port yet
    inbuf,          \* the input buffer of self.conn (in_waiting = its length)
    op,             \* the public operation running: "idle", "read", ...
    rpc,            \* where _read_if_available stands
    tstart,         \* when the wait _read_if_available stands in began
    length_high,    \* local of _read_if_available: b'' or one byte
    length_low,     \* local of _read_if_available: b'' or one byte
    msg_length,     \* local of _read_if_available
    msg,            \* msg[0 .. byte_count - 1]; what _read_if_available returned
    raised,         \* the exception _read_if_available raised, or "none"
    result,         \* how the last public operation ended
    consumed,       \* raw bytes the current call of _read_if_available has read
    expired,        \* a raw-byte read of the current call gave up waiting
    sent,           \* what the peer has sent: its payloads and what the line did to them
    start,          \* local of read_until_frame_id
    target_id,      \* parameter of read_until_frame_id
    frame_id,       \* local of read_until_frame_id
    output_frames,  \* local of read_until_frame_id
    caller,         \* the method that called read_until_frame_id, if one did
    except_on_not_status, \* parameter of discard_until_frame_id
    last_message,   \* self.last_message, in ms
    motor_unblocked,\* self.motor_unblocked, in ms
    rpm_setting,    \* self.rpm_setting
    wpc,            \* where write() stands
    wframe,         \* the frame write() has prepared
    after_write,    \* what the caller of write() still has to do: <<>> or << num_steps >>
    write_at,       \* when the latest self.conn.write happened, -1 before the first
    wargs,          \* the arguments of the write() call under way or of the one that failed
    _next_frame,    \* self._next_frame
    issued,         \* what the latest read of next_frame returned, 0 before the first
    allocs,         \* reads of next_frame so far
    cleared,        \* line bytes that had arrived at the latest clear_incoming, -1 before the first
    pargs,          \* the arguments handed to pack_message
    packed,         \* what pack_message made of them
    unpacked,       \* what unpack_message made of that, or of umsg
    umsg,           \* the payload handed to unpack_message and explain_message
    explained       \* what explain_message made of umsg

readVars == << wire, inbuf, op, rpc, tstart, length_high, length_low, msg_length,
               msg, raised, result, consumed, expired, sent >>
loopVars == << start, target_id, frame_id, output_frames, caller, except_on_not_status >>
sendVars == << last_message, motor_unblocked, rpm_setting, wpc, wframe, after_write,
               write_at, wargs >>
allocVars == << _next_frame, issued, allocs, cleared >>
packVars == << pargs, packed, unpacked, umsg, explained >>
vars == << now, readVars, loopVars, sendVars, allocVars, packVars >>

\* how a public operation ended
NoResult == [kind |-> "none", err |-> "none", frame |-> <<>>, frames |-> <<>>]
\* a frame (a list of field values) is returned
Returned(frame) == [kind |-> "return", err |-> "none", frame |-> frame, frames |-> <<>>]
\* a list of frames is returned
ReturnedFrames(frames) ==
    [kind |-> "return", err |-> "none", frame |-> <<>>, frames |-> frames]
Raised(err) == [kind |-> "raise", err |-> err, frame |-> <<>>, frames |-> <<>>]

(***************************************************************************)
(* The peer and the serial line.                                           *)
(***************************************************************************)
\* the bytes the model puts into payloads: the four reserved bytes, a plain
\* byte and one whose checksum is itself reserved (0xFF - 0x81 = 0x7E)
ByteSample == {XonByte, XoffByte, EscapeByte, Delimiter, 37, 129}

RECURSIVE SeqsUpTo(_, _)
SeqsUpTo(S, n) ==
    IF n = 0 THEN {<<>>}
    ELSE LET shorter == SeqsUpTo(S, n - 1)
         IN  shorter \cup {Append(q, x) : q \in {r \in shorter : Len(r) = n - 1}, x \in S}

\* payloads whose length byte is itself a reserved value
LongLengths == {XonByte, XoffByte}
LongPayloads == {[i \in 1..n |-> 0] : n \in LongLengths}

RawPayloads == SeqsUpTo(ByteSample, MaxLen) \cup LongPayloads

NoFault == [kind |-> "none", pos |-> 0, bit |-> 0]

\* s with bit k of its i-th byte flipped
FlipAt(s, i, k) == [j \in 1..Len(s) |-> IF j = i THEN FlipBit(s[j], k) ELSE s[j]]

\* what the line does to a frame: nothing, one bit flipped in a byte behind the
\* three header bytes, or a stray byte ahead of the frame
Faults(payload) ==
    IF payload \in LongPayloads THEN {NoFault}
    ELSE {NoFault}
        \cup {[kind |-> "flip", pos |-> i, bit |-> k] :
                    i \in 4..Len(_prepare_write(payload)), k \in 0..7}
        \cup {[kind |-> "stray", pos |-> 0, bit |-> b] : b \in {0, EscapeByte}}

\* the frame as it reaches the port: the device frames its message as
\* _prepare_write does, the line may damage it
PeerFrame(payload, fault) ==
    CASE fault.kind = "none" -> _prepare_write(payload)
      [] fault.kind = "flip" -> FlipAt(_prepare_write(payload), fault.pos, fault.bit)
      [] fault.kind = "stray" -> << fault.bit >> \o _prepare_write(payload)

\* k more bytes of the line reach the port's input buffer.  Bytes that arrive
\* behind unread ones are taken to arrive with them: the session cannot tell
\* the difference, it only ever looks at the head of a non-empty buffer.  For
\* the same reason a burst is either one byte or all that is on the line: a
\* burst of k bytes reads like k bursts of one.
Deliver(k) ==
    /\ k \in {1, Len(wire)}
    /\ wire # <<>>
    /\ inbuf = <<>>
    /\ inbuf' = inbuf \o SubSeq(wire, 1, k)
    /\ wire' = SubSeq(wire, k + 1, Len(wire))
    /\ UNCHANGED << now, op, rpc, tstart, length_high, length_low, msg_length, msg,
                    raised, result, consumed, expired, sent >>
    /\ UNCHANGED << loopVars, sendVars, allocVars, packVars >>

\* _read_if_available is inside one of its waits for a byte
Blocked == rpc \in {"len_high", "len_low", "wait", "escaped"} /\ inbuf = <<>>

\* time passes by d while the reader waits for a byte
Tick(d) ==
    /\ now + d <= MaxTime
    /\ now' = now + d
    /\ UNCHANGED << readVars, loopVars, sendVars, allocVars, packVars >>

(***************************************************************************)
(* XBee._read_if_available, one action per wait (src/xbee/xbee.py).        *)
(***************************************************************************)
\* a wait of at most self.conn.timeout for one byte is over
WaitOver == inbuf # <<>> \/ now >= tstart + conn_timeout

\* the locals of _read_if_available before it runs and after it is left
FreshLocals ==
    /\ length_high' = <<>>
    /\ length_low' = <<>>
    /\ msg_length' = 0
    /\ msg' = <<>>

\* lines 120-122: nothing to read, or the delimiter is read and checked
EnterReadMutant ==
    /\ FreshLocals
    /\ expired' = FALSE
    /\ raised' = "none"
    /\ tstart' = now
    /\ IF inbuf = <<>>
       THEN rpc' = "done" /\ consumed' = 0 /\ UNCHANGED inbuf
       ELSE rpc' = "len_high" /\ consumed' = 1 /\ inbuf' = Tail(inbuf)
EnterRead ==
    /\ FreshLocals
    /\ expired' = FALSE
    /\ tstart' = now
    /\ IF inbuf = <<>>
       THEN rpc' = "done" /\ raised' = "none" /\ consumed' = 0 /\ UNCHANGED inbuf
       ELSE /\ inbuf' = Tail(inbuf)
            /\ consumed' = 1
            /\ IF Head(inbuf) # Delimiter
               THEN rpc' = "done" /\ raised' = "Bytes lost"
               ELSE rpc' = "len_high" /\ raised' = "none"

\* XBee.read is called and enters _read_if_available
ReadBegin ==
    /\ op = "idle"
    /\ op' = "read"
    /\ result' = NoResult
    /\ EnterRead
    /\ UNCHANGED << now, wire, sent >>
    /\ UNCHANGED << loopVars, sendVars, allocVars, packVars >>

\* line 123: self.conn.read() gives one byte, or b'' once the timeout is over
ReadLengthHigh ==
    /\ rpc = "len_high"
    /\ WaitOver
    /\ IF inbuf # <<>>
       THEN /\ length_high' = << Head(inbuf) >>
            /\ inbuf' = Tail(inbuf)
            /\ consumed' = consumed + 1
            /\ UNCHANGED expired
       ELSE /\ length_high' = <<>>
            /\ expired' = TRUE
            /\ UNCHANGED << inbuf, consumed >>
    /\ rpc' = "len_low"
    /\ tstart' = now
    /\ UNCHANGED << now, wire, op, length_low, msg_length, msg, raised, result, sent >>
    /\ UNCHANGED << loopVars, sendVars, allocVars, packVars >>

\* lines 124-127: the second length byte, then msg_length; indexing a b''
\* that a timed-out read returned raises IndexError
ReadLengthLow ==
    /\ rpc = "len_low"
    /\ WaitOver
    /\ LET low == IF inbuf # <<>> THEN << Head(inbuf) >> ELSE <<>>
       IN  /\ length_low' = low
           /\ IF inbuf # <<>>
              THEN inbuf' = Tail(inbuf) /\ consumed' = consumed + 1 /\ UNCHANGED expired
              ELSE expired' = TRUE /\ UNCHANGED << inbuf, consumed >>
           /\ IF length_high = <<>> \/ low = <<>>
              THEN rpc' = "done" /\ raised' = "IndexError" /\ UNCHANGED msg_length
              ELSE /\ rpc' = "wait"
                   /\ msg_length' = length_high[1] * 256 + low[1]
                   /\ UNCHANGED raised
    /\ tstart' = now
    /\ UNCHANGED << now, wire, op, length_high, msg, result, sent >>
    /\ UNCHANGED << loopVars, sendVars, allocVars, packVars >>

\* a logical byte is stored: the loop goes on or the message is returned
StoreByte(b) ==
    /\ msg' = Append(msg, b)
    /\ rpc' = IF Len(msg) + 1 = msg_length + 1 THEN "done" ELSE "wait"
    /\ tstart' = now

\* lines 129-135: wait for a byte, give up with "Serial Timeout", or read it
ReadMessageByte ==
    /\ rpc = "wait"
    /\ WaitOver
    /\ IF inbuf = <<>>
       THEN /\ rpc' = "done"
            /\ raised' = "Serial Timeout"
            /\ expired' = TRUE
            /\ UNCHANGED << inbuf, consumed, msg, tstart >>
       ELSE /\ inbuf' = Tail(inbuf)
            /\ consumed' = consumed + 1
            /\ IF Head(inbuf) = EscapeByte
               THEN rpc' = "escaped" /\ tstart' = now /\ UNCHANGED msg
               ELSE StoreByte(Head(inbuf))
            /\ UNCHANGED << raised, expired >>
    /\ UNCHANGED << now, wire, op, length_high, length_low, msg_length, result, sent >>
    /\ UNCHANGED << loopVars, sendVars, allocVars, packVars >>

\* line 136: the byte after 0x7D; indexing the b'' of a timed-out read
\* raises IndexError
ReadEscaped ==
    /\ rpc = "escaped"
    /\ WaitOver
    /\ IF inbuf = <<>>
       THEN /\ rpc' = "done"
            /\ raised' = "IndexError"
            /\ expired' = TRUE
            /\ UNCHANGED << inbuf, consumed, msg, tstart >>
       ELSE /\ inbuf' = Tail(inbuf)
            /\ consumed' = consumed + 1
            /\ StoreByte(Xor20(Head(inbuf)))
            /\ UNCHANGED << raised, expired >>
    /\ UNCHANGED << now, wire, op, length_high, length_low, msg_length, result, sent >>
    /\ UNCHANGED << loopVars, sendVars, allocVars, packVars >>

(***************************************************************************)
(* XBee.read (src/xbee/xbee.py).                                           *)
(***************************************************************************)
\* what read() makes of the message _read_if_available returned
ReadResult(message) ==
    IF message = <<>> THEN Returned(<<>>)
    ELSE IF ~_validate_checksum(message) THEN Raised("Checksum incorrect")
    ELSE LET u == unpack_message(ButLast(message))
         IN  IF u.err # "none" THEN Raised(u.err) ELSE Returned(u.frame)

\* lines 150-161, once _read_if_available is through
ReadFinishMutant ==
    /\ op = "read"
    /\ rpc = "done"
    /\ result' = IF raised # "none" THEN Raised(raised) ELSE ReadResult(msg)
    /\ inbuf' = IF result'.kind = "raise" THEN <<>> ELSE inbuf
    /\ op' = "idle"
    /\ rpc' = "none"
    /\ FreshLocals
    /\ raised' = "none"
    /\ tstart' = 0
    /\ UNCHANGED << now, wire, consumed, expired, sent >>
    /\ UNCHANGED << loopVars, sendVars, allocVars, packVars >>
ReadFinish ==
    /\ op = "read"
    /\ rpc = "done"
    /\ result' = IF raised # "none" THEN Raised(raised) ELSE ReadResult(msg)
    /\ op' = "idle"
    /\ rpc' = "none"
    /\ FreshLocals
    /\ raised' = "none"
    /\ tstart' = 0
    /\ UNCHANGED << now, wire, inbuf, consumed, expired, sent >>
    /\ UNCHANGED << loopVars, sendVars, allocVars, packVars >>

(***************************************************************************)
(* The codec specification: the peer frames one payload, possibly damaged, *)
(* and the session reads.                                                  *)
(***************************************************************************)
\* the session once XBee.__init__ and RocketControl.__init__ are through, at
\* time 0, with nothing on the line
Init ==
    /\ now = 0
    /\ sent = <<>>
    /\ wire = <<>>
    /\ inbuf = <<>>
    /\ op = "idle"
    /\ rpc = "none"
    /\ tstart = 0
    /\ length_high = <<>>
    /\ length_low = <<>>
    /\ msg_length = 0
    /\ msg = <<>>
    /\ raised = "none"
    /\ result = NoResult
    /\ consumed = 0
    /\ expired = FALSE
    /\ start = 0
    /\ target_id = 0
    /\ frame_id = IntVal(0)
    /\ output_frames = <<>>
    /\ caller = "none"
    /\ except_on_not_status = FALSE
    /\ last_message = 0
    /\ motor_unblocked = 0
    /\ rpm_setting = 15
    /\ wpc = "none"
    /\ wframe = <<>>
    /\ after_write = <<>>
    /\ write_at = -1
    /\ wargs = <<>>
    /\ _next_frame = 1
    /\ issued = 0
    /\ allocs = 0
    /\ cleared = -1
    /\ pargs = <<>>
    /\ packed = [err |-> "none", bytes |-> <<>>]
    /\ unpacked = [err |-> "none", frame |-> <<>>]
    /\ umsg = <<>>
    /\ explained = [err |-> "none", explanation |-> <<>>]

\* the peer frames one payload and puts it on the line
PeerSendRaw ==
    /\ sent = <<>>
    /\ op = "idle"
    /\ result.kind = "none"
    /\ \E payload \in RawPayloads : \E fault \in Faults(payload) :
            /\ sent' = << [payload |-> payload, fault |-> fault] >>
            /\ wire' = PeerFrame(payload, fault)
    /\ UNCHANGED << now, inbuf, op, rpc, tstart, length_high, length_low, msg_length,
                    msg, raised, result, consumed, expired >>
    /\ UNCHANGED << loopVars, sendVars, allocVars, packVars >>

\* the line delivers until the call has ended; a byte that is not there when
\* a wait expires is late for that wait
Arrive ==
    /\ result.kind = "none"
    /\ ~(Blocked /\ now >= tstart + conn_timeout)
    /\ \E k \in {1, Len(wire)} : Deliver(k)
\* the one call of read() the codec specification follows
FirstRead == result.kind = "none" /\ ReadBegin
WaitTick == Blocked /\ now < tstart + conn_timeout /\ Tick(conn_timeout)

NextCodec ==
    \/ PeerSendRaw
    \/ Arrive
    \/ WaitTick
    \/ FirstRead
    \/ ReadLengthHigh
    \/ ReadLengthLow
    \/ ReadMessageByte
    \/ ReadEscaped
    \/ ReadFinish

SpecCodec == Init /\ [][NextCodec]_vars

(***************************************************************************)
(* Claims about the frame codec, checked under SpecCodec.                  *)
(***************************************************************************)
\* the payload and the fault of the frame the peer sent
SentPayload == sent[1].payload
SentFault == sent[1].fault
SentMessage == SentPayload \o _generate_checksum(SentPayload)

\* _read_if_available has just returned or raised, read() has not gone on yet
RawDone == op = "read" /\ rpc = "done"

\* un-escaping as the protocol defines it: 0x7D, x stands for x ^ 0x20
RECURSIVE RefUnescape(_)
RefUnescape(s) ==
    IF s = <<>> THEN <<>>
    ELSE IF s[1] = EscapeByte /\ Len(s) >= 2
         THEN << Xor20(s[2]) >> \o RefUnescape(SubSeq(s, 3, Len(s)))
         ELSE << s[1] >> \o RefUnescape(Tail(s))

\* C1: wire round trip.  When the frame _prepare_write made of a payload is
\* read by _read_if_available and no wait for a byte expires, the call raises
\* nothing and returns exactly the payload followed by its checksum byte, and
\* it has consumed the whole frame: nothing of it is left on the line or in
\* the input buffer.
C1_RoundTrip ==
    (RawDone /\ sent # <<>> /\ SentFault.kind = "none" /\ consumed > 0 /\ ~expired)
        => /\ raised = "none"
           /\ msg = SentMessage
           /\ consumed = Len(_prepare_write(SentPayload))
           /\ wire = <<>>
           /\ inbuf = <<>>

\* C1 happens: a payload of two reserved bytes came back whole, every byte of
\* it having been escaped on the wire
C1_Witness ==
    /\ RawDone /\ sent # <<>> /\ SentFault.kind = "none" /\ ~expired
    /\ Len(SentPayload) = 2
    /\ \A i \in 1..2 : NeedsEscape(SentPayload[i])
    /\ msg = SentMessage
    /\ consumed >= 3 + 2 * 2 + 1

\* the frame is on the line as the peer sent it, nothing of it delivered yet
OnLine == sent # <<>> /\ op = "idle" /\ result.kind = "none" /\ inbuf = <<>>

\* C2: the encoder's output is 0x7E, the two big-endian bytes of the length
\* of the unescaped payload, then the escaped payload + checksum: the three
\* header bytes are raw even when a length byte has a reserved value, the
\* rest holds no raw 0x7E, 0x11 or 0x13 and un-escapes to payload + checksum.
C2_EncodeLayout ==
    (OnLine /\ SentFault.kind = "none")
        => LET body == SubSeq(wire, 4, Len(wire))
           IN  /\ Len(wire) >= 4
               /\ wire[1] = Delimiter
               /\ wire[2] * 256 + wire[3] = Len(SentPayload)
               /\ wire[2] \in Byte /\ wire[3] \in Byte
               /\ \A i \in 1..Len(body) : body[i] \notin {Delimiter, XonByte, XoffByte}
               /\ RefUnescape(body) = SentMessage
               /\ Len(body) = Len(SentMessage)
                    + Cardinality({i \in 1..Len(SentMessage) : NeedsEscape(SentMessage[i])})

\* C2 happens: a payload whose length byte is 0x11 or 0x13 is on the line with
\* that byte raw in the header, and one whose bytes were escaped is too
C2_Witness ==
    /\ OnLine /\ SentFault.kind = "none"
    /\ \/ wire[3] \in {XonByte, XoffByte}
       \/ Len(wire) > 3 + Len(SentPayload) + 1

\* C20 as the spec states it: the length field of a frame the encoder made
\* holds the byte count of payload plus checksum.
C20_LengthCountsChecksum ==
    (OnLine /\ SentFault.kind = "none")
        => wire[2] * 256 + wire[3] = Len(SentPayload) + 1

\* C20, amended: the length field holds the byte count of the payload alone,
\* one less than that of payload plus checksum; the checksum byte is sent but
\* not counted, and _read_if_available reads one byte more than the field
\* says.
C20_LengthIsPayloadCount ==
    /\ (OnLine /\ SentFault.kind = "none")
            => wire[2] * 256 + wire[3] = Len(SentMessage) - 1
    /\ (sent # <<>> /\ RawDone /\ SentFault.kind = "none" /\ raised = "none" /\ consumed > 0)
            => /\ msg_length = Len(SentPayload)
               /\ Len(msg) = msg_length + 1
               /\ msg = SentMessage

\* a payload of two bytes has been read off a frame whose length field is 2
C20_Witness ==
    /\ sent # <<>> /\ RawDone /\ SentFault.kind = "none" /\ raised = "none"
    /\ Len(SentPayload) = 2
    /\ msg_length = 2
    /\ Len(msg) = 3

\* the flipped bit is in an escape byte of the frame, or makes one
TouchesEscape ==
    LET b == _prepare_write(SentPayload)[SentFault.pos]
    IN  b = EscapeByte \/ FlipBit(b, SentFault.bit) = EscapeByte

\* read() is through with a frame the line had flipped a bit of, no wait for a
\* byte having timed out
FlippedRead ==
    /\ sent # <<>> /\ SentFault.kind = "flip"
    /\ op = "idle" /\ result.kind # "none" /\ consumed > 0 /\ ~expired

\* C7 as the spec states it: read() of a generated frame with one bit of its
\* payload or checksum part flipped fails with "Checksum incorrect".
C7_EveryFlipRejected == FlippedRead => result = Raised("Checksum incorrect")

\* C7, amended: with any one bit of the payload or of the checksum byte flipped,
\* _validate_checksum is false for the message; and read() of a generated frame
\* with one bit flipped behind its header fails with "Checksum incorrect" and
\* returns no frame, provided the flipped byte neither is nor becomes the escape
\* byte 0x7D.
C7_CorruptionDetected ==
    (sent # <<>>)
        => /\ OnLine => \A i \in 1..Len(SentMessage) : \A k \in 0..7 :
                            ~_validate_checksum(FlipAt(SentMessage, i, k))
           /\ (SentFault.kind = "flip" /\ ~TouchesEscape /\ RawDone /\ consumed > 0 /\ ~expired)
                => (raised = "none" /\ ~_validate_checksum(msg))
           /\ (FlippedRead /\ ~TouchesEscape) => result = Raised("Checksum incorrect")

\* C7 happens: read() of a frame whose escaped checksum had a bit flipped has
\* raised the checksum error
C7_Witness ==
    /\ FlippedRead
    /\ ~TouchesEscape
    /\ SentPayload = << 129 >>
    /\ SentFault.pos = 6
    /\ result = Raised("Checksum incorrect")

\* C8: checksum agreement.  For every payload the generated checksum is one
\* byte c with (sum(payload) + c) mod 256 = 0xFF, _validate_checksum accepts
\* payload + c, and a frame read whole passes the check of read().
C8_ChecksumAgreement ==
    (sent # <<>>)
        => LET c == _generate_checksum(SentPayload)
           IN  /\ Len(c) = 1
               /\ c[1] \in Byte
               /\ c[1] = 255 - (SumBytes(SentPayload) % 256)
               /\ _validate_checksum(SentPayload \o c)
               /\ (SentFault.kind = "none" /\ op = "idle" /\ consumed > 0 /\ ~expired)
                    => result # Raised("Checksum incorrect")

\* C8 happens: the message of a payload whose byte sum exceeds 255 was read
\* and validates
C8_Witness ==
    /\ RawDone /\ sent # <<>> /\ SentFault.kind = "none"
    /\ SumBytes(SentPayload) > 255
    /\ raised = "none"
    /\ msg = SentMessage
    /\ _validate_checksum(msg)

\* C9 as the spec states it: whenever a raw byte the decoder waits for (a
\* length byte, a payload or checksum byte, the byte after 0x7D) does not
\* arrive within the transport timeout, the decode fails with "Serial Timeout"
\* and nothing else.
C9_TimeoutIsSerialTimeout ==
    (RawDone /\ expired) => raised = "Serial Timeout"

\* C10: sync loss.  When the first byte read for a frame is not 0x7E,
\* _read_if_available raises "Bytes lost" having read that one byte only: no
\* length byte and no payload byte has been read or stored, and read() passes
\* the error on.  "Bytes lost" is raised in no other case.
C10_SyncLost ==
    /\ (RawDone /\ sent # <<>> /\ SentFault.kind = "stray" /\ consumed > 0)
            => /\ raised = "Bytes lost"
               /\ consumed = 1
               /\ length_high = <<>> /\ length_low = <<>> /\ msg = <<>>
    /\ (op = "idle" /\ sent # <<>> /\ SentFault.kind = "stray" /\ consumed > 0)
            => (result = Raised("Bytes lost") /\ consumed = 1)
    /\ (raised = "Bytes lost") => (sent # <<>> /\ SentFault.kind = "stray")

\* C10 happens: read() failed with "Bytes lost" on a stray byte, and the frame
\* behind it is still unread
C10_Witness ==
    /\ sent # <<>> /\ SentFault.kind = "stray"
    /\ op = "idle" /\ result = Raised("Bytes lost")
    /\ consumed = 1
    /\ Len(inbuf) + Len(wire) = Len(_prepare_write(SentPayload))
(***************************************************************************)
(* RocketControl.next_frame (src/nasa_sl.py).                              *)
(***************************************************************************)
\* self._next_frame after a read of next_frame
NextFrameAfterMutant(n) == IF n + 1 > LastFrameId THEN 0 ELSE n + 1
NextFrameAfter(n) == IF n + 1 > LastFrameId THEN FirstFrameId ELSE n + 1

\* a read of the property next_frame
NextFrame ==
    /\ allocs < MaxAlloc
    /\ issued' = _next_frame
    /\ _next_frame' = NextFrameAfter(_next_frame)
    /\ allocs' = allocs + 1
    /\ UNCHANGED << now, readVars, loopVars, sendVars, packVars, cleared >>

SpecFrameId == Init /\ [][NextFrame]_vars

\* C5: frame-ID allocation.  From a fresh session the n-th read of next_frame
\* returns ((n - 1) mod 255) + 1, that is 1, 2, ..., 255, 1, 2, ...; the
\* counter stays within 0x01..0xFF and 0x00 is never returned.
C5_FrameIdSequence ==
    /\ _next_frame \in FirstFrameId..LastFrameId
    /\ allocs > 0 => (issued = ((allocs - 1) % 255) + 1 /\ issued # 0)
    /\ allocs = 0 => _next_frame = 1

\* C5 happens: the 256th read wrapped round and returned 1 again
C5_Witness == allocs = 256 /\ issued = 1 /\ _next_frame = 2

(***************************************************************************)
(* The packer specification: pack_message, then unpack_message of its      *)
(* result, on argument tuples that are legal for the registered templates. *)
(***************************************************************************)
\* the AT command "AT" as a Python str
CommandSample == StrVal(<< 65, 84 >>)

\* argument values of a field, by the data type its template declares
FieldSamples(field) ==
    CASE field[4] = "uint8_t" ->
            IF field[1] = "Frame ID" THEN {IntVal(1), IntVal(255)}
            ELSE {IntVal(0), IntVal(200)}
      [] field[4] = "uint16_t" -> {IntVal(65534)}
      [] field[4] = "uint64_t" -> {IntVal(65535)}
      [] field[4] = "str" -> {CommandSample}
      \* "bytes", and the parameter value of 0x09, whose template names no type
      [] OTHER -> {BytesVal(<<>>), BytesVal(<< 3 >>), BytesVal(<< 3, 0, 200 >>)}

\* a variable-length last field that may be left out of the call
MayOmit(field) == field[3] = -1 /\ "optional" \in {field[i] : i \in 4..Len(field)}

\* the argument tuples for the fields from `component` on
RECURSIVE ArgTails(_, _)
ArgTails(tag, component) ==
    IF component >= TemplateLen(tag) THEN {<<>>}
    ELSE LET field == Field(tag, component)
             given == {<< v >> \o rest : v \in FieldSamples(field),
                                        rest \in ArgTails(tag, component + 1)}
         IN  IF component = TemplateLen(tag) - 1 /\ MayOmit(field)
             THEN given \cup {<<>>}
             ELSE given

LegalArgs == UNION {{<< IntVal(tag) >> \o rest : rest \in ArgTails(tag, 1)} : tag \in TemplateTags}

NotUnpacked == [err |-> "none", frame |-> <<>>]

\* pack_message(*args) is called
PackCall ==
    /\ pargs = <<>>
    /\ \E args \in LegalArgs :
            /\ pargs' = args
            /\ packed' = pack_message(args)
    /\ UNCHANGED << now, readVars, loopVars, sendVars, allocVars, unpacked, umsg, explained >>

\* unpack_message is called on the bytes pack_message returned
UnpackCall ==
    /\ pargs # <<>>
    /\ packed.err = "none"
    /\ unpacked = NotUnpacked
    /\ unpacked' = unpack_message(packed.bytes)
    /\ UNCHANGED << now, readVars, loopVars, sendVars, allocVars, pargs, packed, umsg, explained >>

NextPack == PackCall \/ UnpackCall

SpecPack == Init /\ [][NextPack]_vars

\* C6 as the spec states it: for every registered frame type and every legal
\* argument tuple, pack_message succeeds and unpack_message of its result
\* returns the tag and the arguments, field for field, with the same values
\* and the same value types.
C6_PackUnpackRoundTrip ==
    (pargs # <<>>)
        => /\ packed.err = "none"
           /\ unpacked # NotUnpacked => (unpacked.err = "none" /\ unpacked.frame = pargs)
\* the fields of the call's template that take a str argument
StrFields == {c \in 1..(Len(pargs) - 1) :
                c < TemplateLen(pargs[1].v[1])
                /\ FieldType(pargs[1].v[1], c) = "str" /\ pargs[c + 1].t = "str"}

\* C12 as the spec states it: with a text string of n characters for a field of
\* type str, pack_message succeeds and the n ASCII bytes of the characters
\* stand at the field's position in the payload.
C12_StringPacked ==
    (pargs # <<>> /\ StrFields # {})
        => /\ packed.err = "none"
           /\ \A c \in StrFields :
                LET first == Field(pargs[1].v[1], c)[2] - 2
                IN  SubSeq(packed.bytes, first, first + Len(pargs[c + 1].v) - 1)
                        = pargs[c + 1].v

(***************************************************************************)
(* The arity specification: pack_message on argument tuples that are too   *)
(* short or too long for the template, next to the legal ones.             *)
(***************************************************************************)
\* legal tuples, the same cut short after any argument, and with one more
ArityArgs ==
    LegalArgs
        \cup UNION {{SubSeq(args, 1, n) : n \in 1..Len(args)} : args \in LegalArgs}
        \cup {Append(args, IntVal(0)) : args \in LegalArgs}

\* pack_message(*args) is called with any number of arguments
PackAnyArity ==
    /\ pargs = <<>>
    /\ \E args \in ArityArgs :
            /\ pargs' = args
            /\ packed' = pack_message(args)
    /\ UNCHANGED << now, readVars, loopVars, sendVars, allocVars, unpacked, umsg, explained >>

NextArity == PackAnyArity \/ UnpackCall

SpecArity == Init /\ [][NextArity]_vars

\* the number of arguments after the tag fits the template: one per field, the
\* optional last field given or left out
ArityFits ==
    LET tag == pargs[1].v[1]
        fields == TemplateLen(tag) - 1
        given == Len(pargs) - 1
    IN  given = fields \/ (given = fields - 1 /\ MayOmit(Field(tag, fields)))

\* C11 as the spec states it: when the number of arguments after the type tag
\* does not fit the number of fields of the type's template, too few or too
\* many, pack_message fails and returns no payload bytes.
C11_ArityChecked ==
    (pargs # <<>> /\ ~ArityFits) => (packed.err # "none" /\ packed.bytes = <<>>)

(***************************************************************************)
(* unpack_message and explain_message on received payloads                 *)
(* (src/xbee/xbee_templates.py).                                           *)
(***************************************************************************)
\* the bytes a field occupies in a payload, by the data type its template
\* declares; a variable-length field may hold no bytes at all
WireSamples(field) ==
    IF field[3] = -1 THEN {<<>>, << 3 >>, << 3, 0, 200 >>}
    ELSE CASE field[4] = "uint8_t" ->
                IF field[1] = "Frame ID" THEN {<< 1 >>, << 255 >>}
                ELSE {<< 0 >>, << 200 >>}
           [] field[4] = "uint16_t" -> {<< 255, 254 >>}
           [] field[4] = "uint64_t" -> {ToBigEndian(65535, 8)}
           [] OTHER -> {CommandSample.v}

\* the payload bytes of the fields from `component` on
RECURSIVE PayloadTails(_, _)
PayloadTails(tag, component) ==
    IF component >= TemplateLen(tag) THEN {<<>>}
    ELSE {bytes \o rest : bytes \in WireSamples(Field(tag, component)),
                          rest \in PayloadTails(tag, component + 1)}

\* received payloads of every registered type
DecodeSample == UNION {{<< tag >> \o rest : rest \in PayloadTails(tag, 1)} : tag \in TemplateTags}

NotExplained == [err |-> "none", explanation |-> <<>>]

\* unpack_message(message) is called on a received payload
DecodeCall ==
    /\ umsg = <<>>
    /\ \E message \in DecodeSample :
            /\ umsg' = message
            /\ unpacked' = unpack_message(message)
    /\ UNCHANGED << now, readVars, loopVars, sendVars, allocVars, pargs, packed, explained >>

\* explain_message(message) is called on the same payload
ExplainCall ==
    /\ umsg # <<>>
    /\ explained = NotExplained
    /\ explained' = explain_message(umsg)
    /\ UNCHANGED << now, readVars, loopVars, sendVars, allocVars, pargs, packed, unpacked, umsg >>

NextDecode == DecodeCall \/ ExplainCall

SpecDecode == Init /\ [][NextDecode]_vars

\* the frame types whose template marks its last field optional
OptionalTags == {tag \in TemplateTags : IsOptional(Field(tag, TemplateLen(tag) - 1))}

\* umsg is of such a type and ends where the optional field would start
FixedOnly ==
    /\ umsg # <<>>
    /\ umsg[1] \in OptionalTags
    /\ Len(umsg) = Field(umsg[1], TemplateLen(umsg[1]) - 1)[2] - 3

\* the value of a fixed-length field, read off the payload at the offset and
\* the length its template gives
FixedValue(message, field) ==
    LET bytes == SubSeq(message, field[2] - 2, field[2] - 3 + field[3])
    IN  IF field[4] = "str" THEN StrVal(bytes) ELSE IntVal(FromBigEndian(bytes))

\* C14: for the types 0x08, 0x17 and 0x88, a payload that ends after the fixed
\* fields unpacks without error into the tag and the fixed fields only, each
\* with the value its bytes hold; explain_message maps every fixed field's name
\* to that value and the optional field's name to None.
C14_OptionalAbsent ==
    FixedOnly =>
        LET tag == umsg[1]
            last == TemplateLen(tag) - 1
        IN  /\ OptionalTags = {8, 23, 136}
            /\ unpacked.err = "none"
            /\ Len(unpacked.frame) = last
            /\ unpacked.frame[1] = IntVal(tag)
            /\ \A c \in 1..(last - 1) :
                    unpacked.frame[c + 1] = FixedValue(umsg, Field(tag, c))
            /\ explained # NotExplained =>
                    /\ explained.err = "none"
                    /\ Len(explained.explanation) = last + 1
                    /\ explained.explanation[1] = [key |-> "Name", val |-> templates[tag][1]]
                    /\ \A c \in 1..(last - 1) :
                            explained.explanation[c + 1] =
                                [key |-> Field(tag, c)[1], val |-> unpacked.frame[c + 1]]
                    /\ explained.explanation[last + 1] =
                            [key |-> Field(tag, last)[1], val |-> NoneVal]

C14_Witness ==
    /\ FixedOnly
    /\ umsg[1] = 136
    /\ explained.err = "none"
    /\ Len(explained.explanation) = 5

\* the fields of the template of tag lie end to end behind the type tag, and
\* none but the last is variable-length or flagged optional
SchemaWellFormed(tag) ==
    LET last == TemplateLen(tag) - 1
    IN  /\ last >= 1
        /\ Field(tag, 1)[2] = 4
        /\ \A c \in 2..last :
                Field(tag, c)[2] = Field(tag, c - 1)[2] + Field(tag, c - 1)[3]
        /\ \A c \in 1..(last - 1) :
                /\ Field(tag, c)[3] >= 1
                /\ "optional" \notin {Field(tag, c)[i] : i \in 4..Len(Field(tag, c))}

\* the value of the variable-length last field: the bytes from its start
\* offset to the end of the payload
TailValue(message, field) == BytesVal(SubSeq(message, field[2] - 2, Len(message)))

\* C21: in every registered template the first field starts at offset 4,
\* right behind the type tag, each further field starts where the one before
\* it ends, and only the last field is variable-length (length -1) or
\* optional; accordingly every value unpack_message returns for a payload is
\* that of the payload bytes at the offsets the template gives.
C21_SchemaWellFormed ==
    /\ \A tag \in TemplateTags : SchemaWellFormed(tag)
    /\ (umsg # <<>> /\ unpacked.err = "none") =>
            \A c \in 1..(Len(unpacked.frame) - 1) :
                LET field == Field(umsg[1], c)
                IN  unpacked.frame[c + 1] =
                        IF field[3] = -1 THEN TailValue(umsg, field)
                        ELSE FixedValue(umsg, field)

\* a transmit request with three bytes of RF data behind its five fixed fields
\* has been unpacked
C21_Witness ==
    /\ umsg # <<>>
    /\ umsg[1] = 16
    /\ unpacked.err = "none"
    /\ Len(unpacked.frame) = 7
    /\ unpacked.frame[7] = BytesVal(<< 3, 0, 200 >>)

\* the data types the template format documents
DataTypes == {"uint8_t", "uint16_t", "uint64_t", "str", "bytes"}

\* C22 as the spec states it: every field of the template of a received
\* payload has the form [name, start, length, datatype] or [name, start,
\* length, datatype, "optional"] with one of the five documented data types,
\* and generate_struct_decode emits a format element for each of them, an
\* optional field that is absent from the payload excepted.
C22_EveryFieldEmitted ==
    (umsg # <<>>) =>
        \A c \in 1..(TemplateLen(umsg[1]) - 1) :
            LET field == Field(umsg[1], c)
            IN  /\ Len(field) \in {4, 5}
                /\ field[4] \in DataTypes
                /\ Len(field) = 5 => field[5] = "optional"
                /\ \/ DecodeComponent(umsg[1], c, umsg).type_string # <<>>
                   \/ IsOptional(field) /\ Len(umsg) = field[2] - 3

\* the frame types whose last field is variable-length bytes and not flagged
\* optional: 0x10, 0x11, 0x90, 0x91, 0x97
VariableTags ==
    {tag \in TemplateTags :
        LET field == Field(tag, TemplateLen(tag) - 1)
        IN  field[3] = -1 /\ field[4] = "bytes" /\ ~IsOptional(field)}

\* C24 as the spec states it: a payload of such a type with no byte in its
\* last field unpacks into one entry per field of the template, the last an
\* empty byte string, and explain_message does not map the field's name to
\* None.
C24_EmptyVariableField ==
    (umsg # <<>> /\ umsg[1] \in VariableTags
        /\ Len(umsg) = Field(umsg[1], TemplateLen(umsg[1]) - 1)[2] - 3) =>
        LET last == TemplateLen(umsg[1]) - 1
        IN  /\ unpacked.err = "none"
            /\ Len(unpacked.frame) = last + 1
            /\ unpacked.frame[last + 1] = BytesVal(<<>>)
            /\ explained # NotExplained =>
                    /\ explained.err = "none"
                    /\ explained.explanation[last + 1].val # NoneVal

(***************************************************************************)
(* XBee.write and its callers in RocketControl: write pacing               *)
(* (src/xbee/xbee.py, src/nasa_sl.py).                                     *)
(***************************************************************************)
\* the arguments transmit_request hands to write for send_message_to_rocket
TransmitArgs(id, message) ==
    << IntVal(16), IntVal(id), IntVal(65535), IntVal(65534), IntVal(0), IntVal(0),
       BytesVal(message) >>

\* the condition of the delay loop of write (line 194)
MustDelayMutant == now < last_message + frame_delay /\ now < motor_unblocked
MustDelay == now < Max2(last_message + frame_delay, motor_unblocked)

\* write(*args) up to its delay loop: the type is checked, the arguments are
\* packed and framed; `after` is what the caller does once write has returned
BeginWrite(args, after) ==
    /\ op = "idle"
    /\ wargs' = args
    /\ IF ~can_process(<< args[1].v[1] >>)
       THEN /\ result' = Raised("Unrecognized message!")
            /\ UNCHANGED << op, wpc, wframe, after_write >>
       ELSE LET p == pack_message(args)
            IN  IF p.err # "none"
                THEN /\ result' = Raised(p.err)
                     /\ UNCHANGED << op, wpc, wframe, after_write >>
                ELSE /\ result' = NoResult
                     /\ op' = "write"
                     /\ wpc' = "delay"
                     /\ wframe' = _prepare_write(p.bytes)
                     /\ after_write' = after

\* send_message_to_rocket(message): a transmit request with frame ID 0
SendMessage ==
    /\ \E message \in {<< 2 >>} : BeginWrite(TransmitArgs(0, message), <<>>)
    /\ UNCHANGED << now, wire, inbuf, rpc, tstart, length_high, length_low, msg_length,
                    msg, raised, consumed, expired, sent >>
    /\ UNCHANGED << last_message, motor_unblocked, rpm_setting, write_at >>
    /\ UNCHANGED << loopVars, allocVars, packVars >>

\* the speeds and step counts the model commands
RpmSample == {30, 300}
StepSample == {0, 5}

\* set_stepper_speed(rpm)
SetStepperSpeed ==
    /\ op = "idle"
    /\ \E rpm \in RpmSample :
            /\ rpm_setting' = rpm
            /\ BeginWrite(TransmitArgs(0, << 3, 3 >> \o ToBigEndian(rpm, 2)), <<>>)
    /\ UNCHANGED << now, wire, inbuf, rpc, tstart, length_high, length_low, msg_length,
                    msg, raised, consumed, expired, sent >>
    /\ UNCHANGED << last_message, motor_unblocked, write_at >>
    /\ UNCHANGED << loopVars, allocVars, packVars >>

\* do_stepper_steps(num_steps), up to the delay loop of its write
DoStepperSteps ==
    /\ \E num_steps \in StepSample :
            BeginWrite(TransmitArgs(0, << 4 >> \o ToBigEndian(num_steps, 4)),
                       << num_steps >>)
    /\ UNCHANGED << now, wire, inbuf, rpc, tstart, length_high, length_low, msg_length,
                    msg, raised, consumed, expired, sent >>
    /\ UNCHANGED << last_message, motor_unblocked, rpm_setting, write_at >>
    /\ UNCHANGED << loopVars, allocVars, packVars >>

\* the caller sets the busy deadline itself: to nothing, or to some time ahead
SetBusyUntil ==
    /\ op = "idle"
    /\ \E v \in {0, now + 25} : motor_unblocked' = v
    /\ motor_unblocked' # motor_unblocked
    /\ UNCHANGED << now, readVars, loopVars, allocVars, packVars >>
    /\ UNCHANGED << last_message, rpm_setting, wpc, wframe, after_write, write_at, wargs >>

\* lines 194-197: the delay loop is left and the frame is written
WriteSend ==
    /\ wpc = "delay"
    /\ ~MustDelay
    /\ write_at' = now
    /\ wpc' = "written"
    /\ UNCHANGED << now, readVars, loopVars, allocVars, packVars >>
    /\ UNCHANGED << last_message, motor_unblocked, rpm_setting, wframe, after_write, wargs >>

\* lines 199-203: last_message is stamped, the port flushed, True returned
WriteStamp ==
    /\ wpc = "written"
    /\ last_message' = now
    /\ wframe' = <<>>
    /\ IF after_write = <<>>
       THEN wpc' = "none" /\ op' = "idle" /\ result' = Returned(<<>>)
       ELSE wpc' = "returned" /\ UNCHANGED << op, result >>
    /\ UNCHANGED << now, wire, inbuf, rpc, tstart, length_high, length_low, msg_length,
                    msg, raised, consumed, expired, sent >>
    /\ wargs' = <<>>
    /\ UNCHANGED << motor_unblocked, rpm_setting, after_write, write_at >>
    /\ UNCHANGED << loopVars, allocVars, packVars >>

\* num_steps / 200 / (self.rpm_setting / 60) seconds, in ms
StepTime(num_steps, rpm) == (num_steps * 300) \div rpm

\* line 62 of nasa_sl.py: the deadline do_stepper_steps sets after its write
StepperDeadline ==
    /\ wpc = "returned"
    /\ motor_unblocked' = now + StepTime(after_write[1], rpm_setting) + 5 * frame_delay
    /\ wpc' = "none"
    /\ after_write' = <<>>
    /\ op' = "idle"
    /\ result' = Returned(<<>>)
    /\ UNCHANGED << now, wire, inbuf, rpc, tstart, length_high, length_low, msg_length,
                    msg, raised, consumed, expired, sent >>
    /\ UNCHANGED << last_message, rpm_setting, wframe, write_at, wargs >>
    /\ UNCHANGED << loopVars, allocVars, packVars >>

\* the steps the clock makes in the pacing specification
\* time passes: in steps of half a frame delay, or five frame delays at once
\* between calls; conn.write returns at once or after half a frame delay
PacingTicks == {frame_delay \div 2, 5 * frame_delay}
PacingTick ==
    \E d \in PacingTicks :
        /\ wpc = "written" => now = write_at /\ d < frame_delay
        /\ wpc = "delay" => MustDelay /\ d < frame_delay
        /\ now + d <= MaxPacingTime
        /\ Tick(d)

NextPacing ==
    \/ PacingTick
    \/ SendMessage
    \/ SetStepperSpeed
    \/ DoStepperSteps
    \/ SetBusyUntil
    \/ WriteSend
    \/ WriteStamp
    \/ StepperDeadline

SpecPacing == Init /\ [][NextPacing]_vars
\* the earliest instant the pending write may go out
EarliestWrite == Max2(last_message + frame_delay, motor_unblocked)

\* C3: a frame is handed to the transport no earlier than
\* max(last_message + frame_delay, motor_unblocked), whatever writes came
\* before and whatever busy deadline the caller set, and two successive
\* transport writes are at least frame_delay apart
C3_WritePacing ==
    /\ [](wpc = "written" => write_at >= EarliestWrite)
    /\ [][wpc = "delay" /\ wpc' = "written" /\ write_at >= 0
            => write_at' - write_at >= frame_delay]_vars

\* a write after an earlier one that had to wait for the busy deadline and went
\* out at the earliest instant allowed
C3_Witness ==
    /\ wpc = "written"
    /\ last_message > 0
    /\ motor_unblocked > last_message + frame_delay
    /\ write_at = EarliestWrite
(***************************************************************************)
(* The write specification: XBee.write called directly, with registered    *)
(* and with unregistered type tags.                                        *)
(***************************************************************************)
\* argument tuples of write: a transmit request, a modem status, and tuples
\* whose tag (0x00, 0x7F) no template is registered for
WriteSample ==
    { TransmitArgs(1, << 2 >>),
      << IntVal(138), IntVal(0) >>,
      << IntVal(0) >>,
      << IntVal(127), IntVal(1), BytesVal(<< 2 >>) >> }

\* write(*args) is called by the application
WriteCall ==
    /\ \E args \in WriteSample : BeginWrite(args, <<>>)
    /\ UNCHANGED << now, wire, inbuf, rpc, tstart, length_high, length_low, msg_length,
                    msg, raised, consumed, expired, sent >>
    /\ UNCHANGED << last_message, motor_unblocked, rpm_setting, write_at >>
    /\ UNCHANGED << loopVars, allocVars, packVars >>

NextWrite ==
    \/ PacingTick
    \/ WriteCall
    \/ SetBusyUntil
    \/ WriteSend
    \/ WriteStamp

SpecWrite == Init /\ [][NextWrite]_vars

\* the latest call of write named a type no template is registered for
UnknownCall == wargs # <<>> /\ wargs[1].v[1] \notin TemplateTags

\* C13: write with a type tag that is not in the registry raises
\* "Unrecognized message!" and is over at once: no frame is prepared or left
\* to be written, nothing is handed to the transport, and last_message and
\* motor_unblocked are what they were before the call
C13_UnknownTypeOnSend ==
    /\ [](UnknownCall => /\ result = Raised("Unrecognized message!")
                         /\ op = "idle" /\ wpc = "none" /\ wframe = <<>>)
    /\ [][(UnknownCall' /\ wargs' # wargs)
            => UNCHANGED << write_at, last_message, motor_unblocked >>]_vars

\* C13 happens: a write with an unregistered tag failed after an earlier write
\* went out and while a busy deadline was pending
C13_Witness ==
    /\ UnknownCall
    /\ result = Raised("Unrecognized message!")
    /\ write_at > 0 /\ last_message >= write_at
    /\ motor_unblocked > now

(***************************************************************************)
(* XBee.read_until_frame_id (src/xbee/xbee.py): the session waits for a    *)
(* frame ID while the peer's frames come in.                               *)
(***************************************************************************)
\* what the peer sends: modem statuses (0x8A, no Frame ID field) and transmit
\* statuses (0x89) whose frame ID is a plain byte or one that is escaped
SessionPayloads == {<< 138, 6 >>, << 137, 6, 0 >>, << 137, XonByte, 0 >>}
\* the frame IDs the session waits for
TargetSample == {0, 6, XonByte}

\* the peer puts one more well-formed frame on the line
PeerSendFrom(payloads) ==
    /\ op = "idle"
    /\ result.kind = "none"
    /\ Len(sent) < MaxFrames
    /\ \E payload \in payloads :
            /\ sent' = Append(sent, [payload |-> payload, fault |-> NoFault])
            /\ wire' = wire \o PeerFrame(payload, NoFault)
    /\ UNCHANGED << now, inbuf, op, rpc, tstart, length_high, length_low, msg_length,
                    msg, raised, result, consumed, expired >>
    /\ UNCHANGED << loopVars, sendVars, allocVars, packVars >>
PeerSend == PeerSendFrom(SessionPayloads)

\* lines 230-232: read_until_frame_id(target_id) is entered
ReadUntilCall(target) ==
    /\ op = "idle"
    /\ result.kind = "none"
    /\ op' = "read_until"
    /\ target_id' = target
    /\ start' = now
    /\ output_frames' = <<>>
    /\ frame_id' = IntVal(0)
    /\ UNCHANGED << now, wire, inbuf, rpc, tstart, length_high, length_low, msg_length,
                    msg, raised, result, consumed, expired, sent >>
    /\ UNCHANGED << sendVars, allocVars, packVars >>

\* read_until_frame_id(target_id) is called by the application
ReadUntilBegin ==
    /\ caller = "none"
    /\ \E target \in TargetSample : ReadUntilCall(target)
    /\ UNCHANGED << caller, except_on_not_status >>

\* line 233: the condition of the loop
LoopConditionMutant == now < start + conn_timeout
LoopCondition == now < start + conn_timeout /\ IntVal(target_id) # frame_id

\* the loop is at its head
AtLoopHead == op = "read_until" /\ rpc = "none"

\* lines 234-235: bytes are available and read() is called
LoopPoll ==
    /\ AtLoopHead
    /\ LoopCondition
    /\ inbuf # <<>>
    /\ EnterRead
    /\ UNCHANGED << now, wire, op, result, sent >>
    /\ UNCHANGED << loopVars, sendVars, allocVars, packVars >>

\* line 234: nothing is available, the loop spins while time passes
LoopSpin ==
    /\ AtLoopHead
    /\ LoopCondition
    /\ inbuf = <<>>
    /\ Tick(conn_timeout \div 2)

\* lines 235-237: read() is through; its error leaves the loop, its frame is
\* appended and its second element becomes the current frame ID
LoopGotFrame ==
    /\ op = "read_until"
    /\ rpc = "done"
    /\ LET this_frame == IF raised # "none" THEN Raised(raised) ELSE ReadResult(msg)
       IN  IF this_frame.kind = "raise"
           THEN /\ result' = this_frame
                /\ op' = "idle"
                /\ UNCHANGED << frame_id, output_frames >>
           ELSE IF Len(this_frame.frame) < 2
           THEN /\ result' = Raised("IndexError")
                /\ op' = "idle"
                /\ UNCHANGED << frame_id, output_frames >>
           ELSE /\ frame_id' = this_frame.frame[2]
                /\ output_frames' = Append(output_frames, this_frame.frame)
                /\ UNCHANGED << op, result >>
    /\ rpc' = "none"
    /\ FreshLocals
    /\ raised' = "none"
    /\ tstart' = 0
    /\ UNCHANGED << now, wire, inbuf, consumed, expired, sent, start, target_id,
                    caller, except_on_not_status >>
    /\ UNCHANGED << sendVars, allocVars, packVars >>

\* line 238: the loop is left and the frames collected are returned
LoopExitMutant ==
    /\ AtLoopHead
    /\ ~LoopCondition
    /\ result' = IF IntVal(target_id) # frame_id THEN Raised("Timeout")
                 ELSE ReturnedFrames(output_frames)
    /\ op' = "idle"
    /\ UNCHANGED << now, wire, inbuf, rpc, tstart, length_high, length_low, msg_length,
                    msg, raised, consumed, expired, sent >>
    /\ UNCHANGED << loopVars, sendVars, allocVars, packVars >>
LoopExit ==
    /\ AtLoopHead
    /\ ~LoopCondition
    /\ result' = ReturnedFrames(output_frames)
    /\ op' = "idle"
    /\ UNCHANGED << now, wire, inbuf, rpc, tstart, length_high, length_low, msg_length,
                    msg, raised, consumed, expired, sent >>
    /\ UNCHANGED << loopVars, sendVars, allocVars, packVars >>

Next ==
    \/ PeerSend
    \/ Arrive
    \/ WaitTick
    \/ ReadUntilBegin
    \/ LoopPoll
    \/ LoopSpin
    \/ LoopGotFrame
    \/ LoopExit
    \/ ReadLengthHigh
    \/ ReadLengthLow
    \/ ReadMessageByte
    \/ ReadEscaped

Spec == Init /\ [][Next]_vars

\* the i-th frame the peer sent, as unpack_message decodes its payload
Decoded(i) == unpack_message(sent[i].payload).frame

\* the line bytes of the peer's frames from the i-th on
RECURSIVE LineFrom(_)
LineFrom(i) ==
    IF i > Len(sent) THEN <<>>
    ELSE PeerFrame(sent[i].payload, sent[i].fault) \o LineFrom(i + 1)

\* read_until_frame_id has returned its list
WaitReturned == op = "idle" /\ result.kind = "return"

\* C4: the list read_until_frame_id returns holds every frame it read, in the
\* order of arrival, matching or not; only its last element can be a frame
\* whose frame ID is target_id, and nothing behind the frames it returns has
\* been taken off the line
C4_AwaitFrameId ==
    WaitReturned =>
        LET n == Len(result.frames)
        IN  /\ n <= Len(sent)
            /\ \A i \in 1..n : result.frames[i] = Decoded(i)
            /\ \A i \in 1..(n - 1) : result.frames[i][2] # IntVal(target_id)
            /\ inbuf \o wire = LineFrom(n + 1)

\* a stray frame, then the awaited one, are returned while a third frame stays
\* in the input buffer
C4_Witness ==
    /\ WaitReturned
    /\ Len(result.frames) = 2
    /\ result.frames[1][2] # IntVal(target_id)
    /\ result.frames[2][2] = IntVal(target_id)
    /\ Len(sent) = 3
    /\ inbuf = LineFrom(3)

\* the template of tag has a Frame ID field
HasFrameId(tag) == Field(tag, 1)[1] = "Frame ID"

\* C23 as the spec states it: when read_until_frame_id returns before its
\* timeout has elapsed, the last frame it read is of a type that has a Frame
\* ID field, and that field equals target_id; a frame of a type without a
\* Frame ID field (0x8A, 0x90, 0x91) never ends the wait.
C23_CorrelationByFrameId ==
    (WaitReturned /\ result.frames # <<>> /\ now < start + conn_timeout) =>
        LET frame == Last(result.frames)
        IN  /\ HasFrameId(frame[1].v[1])
            /\ frame[2] = IntVal(target_id)

\* C25 as the spec states it: read_until_frame_id(0) polls until the timeout
\* like any other wait; it does not return the empty list before the timeout
\* has elapsed while bytes are waiting in the input buffer.
C25_WaitForZero ==
    (WaitReturned /\ target_id = 0 /\ result.frames = <<>> /\ inbuf # <<>>)
        => now >= start + conn_timeout

(***************************************************************************)
(* The wait of read_until_frame_id while the clock advances.               *)
(***************************************************************************)
\* a step of the call itself: the loop, the read() it is in, or the time that
\* passes while read() waits for a byte
CallStep ==
    \/ LoopPoll
    \/ LoopSpin
    \/ LoopExit
    \/ ReadLengthHigh
    \/ ReadLengthLow
    \/ ReadMessageByte
    \/ ReadEscaped
    \/ WaitTick

\* read() comes back to the loop: the step of LoopGotFrame, the only one
\* that takes rpc from "done" to "none" inside read_until_frame_id
ReadComesBack == op = "read_until" /\ rpc = "done" /\ rpc' = "none"

\* the session specification with a thread that keeps running and a clock
\* that keeps advancing; the peer and the line are under no obligation
SpecLive == Spec /\ WF_vars(CallStep) /\ WF_rpc(ReadComesBack)

\* the call is over and its last frame, if any, does not carry target_id
EndedWithoutMatch ==
    /\ WaitReturned
    /\ (result.frames = <<>> \/ Last(result.frames)[2] # IntVal(target_id))

\* C15: while the clock advances a call of read_until_frame_id always comes
\* back to its caller.  When it comes back without a frame of the target ID,
\* the timeout has elapsed (or the target is 0, the value frame_id starts
\* with, and the loop was never entered) and the result is the list of the
\* frames collected so far, possibly empty.  The loop itself raises nothing: an
\* exception leaves the call only out of a read() it made, never at the test
\* of the deadline.
C15_BoundedWait ==
    /\ (op = "read_until") ~> (op = "idle")
    /\ [](EndedWithoutMatch =>
            /\ (now >= start + conn_timeout \/ (target_id = 0 /\ result.frames = <<>>))
            /\ result.frames = output_frames
            /\ \A i \in 1..Len(result.frames) : result.frames[i] = Decoded(i))
    /\ [][(op = "read_until" /\ op' = "idle")
            => IF rpc = "none" THEN result' = ReturnedFrames(output_frames)
               ELSE result'.kind = "raise"]_vars

\* the timeout ends a wait that collected one frame of another ID
C15_Witness ==
    /\ EndedWithoutMatch
    /\ Len(result.frames) = 1
    /\ now >= start + conn_timeout

(***************************************************************************)
(* XBee.discard_until_frame_id (src/xbee/xbee.py).                         *)
(***************************************************************************)
\* a modem status, and transmit statuses with two frame IDs
DiscardPayloads ==
    {<< 138, 0 >>, << 139, 5, 255, 254, 0, 0, 0 >>, << 139, XonByte, 255, 254, 0, 0, 0 >>}
\* the frame IDs discard_until_frame_id waits for
DiscardTargets == {5, XonByte}

PeerSendStatus == PeerSendFrom(DiscardPayloads)

\* line 250: discard_until_frame_id(target_id, except_on_not_status) is
\* called and calls read_until_frame_id(target_id)
DiscardBegin ==
    /\ caller = "none"
    /\ \E target \in DiscardTargets : ReadUntilCall(target)
    /\ caller' = "discard_until_frame_id"
    /\ \E strict \in BOOLEAN : except_on_not_status' = strict

\* lines 253-254: some frame before the last is neither a transmit status nor
\* tagged with target_id
StrayPacketMutant(frames, target) ==
    \E i \in 1..(Len(frames) - 1) :
        frames[i][1] # IntVal(139) \/ frames[i][2] # IntVal(target)
StrayPacket(frames, target) ==
    \E i \in 1..(Len(frames) - 1) :
        frames[i][1] # IntVal(139) /\ frames[i][2] # IntVal(target)

\* lines 251-257: what discard_until_frame_id makes of the list
\* read_until_frame_id returned
DiscardResultMutant(frames, target, strict) ==
    IF frames # <<>>
    THEN IF strict /\ StrayPacket(frames, target)
         THEN Raised("Discarded valid packet!")
         ELSE Returned(Head(frames))
    ELSE Returned(<<>>)
DiscardResult(frames, target, strict) ==
    IF frames # <<>>
    THEN IF strict /\ StrayPacket(frames, target)
         THEN Raised("Discarded valid packet!")
         ELSE Returned(Last(frames))
    ELSE Returned(<<>>)

\* lines 250-257: read_until_frame_id is through; its exception goes on to
\* the caller, its list is looked through
DiscardFinish ==
    /\ caller = "discard_until_frame_id"
    /\ op = "idle"
    /\ result.kind # "none"
    /\ result' = IF result.kind = "raise" THEN result
                 ELSE DiscardResult(result.frames, target_id, except_on_not_status)
    /\ caller' = "none"
    /\ UNCHANGED << now, wire, inbuf, op, rpc, tstart, length_high, length_low, msg_length,
                    msg, raised, consumed, expired, sent >>
    /\ UNCHANGED << start, target_id, frame_id, output_frames, except_on_not_status >>
    /\ UNCHANGED << sendVars, allocVars, packVars >>

NextDiscard ==
    \/ PeerSendStatus
    \/ Arrive
    \/ WaitTick
    \/ DiscardBegin
    \/ LoopPoll
    \/ LoopSpin
    \/ LoopGotFrame
    \/ LoopExit
    \/ ReadLengthHigh
    \/ ReadLengthLow
    \/ ReadMessageByte
    \/ ReadEscaped
    \/ DiscardFinish

SpecDiscard == Init /\ [][NextDiscard]_vars

\* discard_until_frame_id is through
DiscardOver == caller = "none" /\ op = "idle" /\ result.kind # "none"

\* C16: what discard_until_frame_id returns is the last frame its
\* read_until_frame_id took off the line, decoded, and nothing else; it is the
\* empty list when no frame was read during the wait.
C16_DiscardReturnsLast ==
    (DiscardOver /\ result.kind = "return") =>
        LET n == Len(output_frames)
        IN  /\ n <= Len(sent)
            /\ inbuf \o wire = LineFrom(n + 1)
            /\ result.frames = <<>>
            /\ result.frame = IF n = 0 THEN <<>> ELSE Decoded(n)

\* a 0x8A modem status, then the 0x8B transmit status with frame ID 5:
\* discard_until_frame_id(5) returns the transmit status
C16_Witness ==
    /\ DiscardOver
    /\ target_id = 5
    /\ Len(sent) >= 2
    /\ sent[1].payload[1] = 138
    /\ sent[2].payload = << 139, 5, 255, 254, 0, 0, 0 >>
    /\ result = Returned(Decoded(2))

\* among the frames the peer sent and the wait collected, one before the last
\* is neither a transmit status nor tagged with target_id
StrayOnLine ==
    \E i \in 1..(Len(output_frames) - 1) :
        sent[i].payload[1] # 139 /\ sent[i].payload[2] # target_id

\* C17: when read_until_frame_id has returned its list, discard_until_frame_id
\* raises "Discarded valid packet!" exactly when except_on_not_status is set
\* and some collected frame other than the last is neither a transmit status
\* (0x8B) nor tagged with target_id; without the flag the call never ends in
\* that error.
C17_StrictCorrelation ==
    /\ [][(caller = "discard_until_frame_id" /\ caller' = "none" /\ result.kind = "return")
            => (result' = Raised("Discarded valid packet!")
                    <=> (except_on_not_status /\ StrayOnLine))]_vars
    /\ [](DiscardOver =>
            /\ result.err = "Discarded valid packet!" => (except_on_not_status /\ StrayOnLine)
            /\ (except_on_not_status /\ StrayOnLine) => result.kind = "raise")

\* strict, and a modem status came before the awaited transmit status
C17_Witness ==
    /\ DiscardOver
    /\ result = Raised("Discarded valid packet!")
    /\ sent[1].payload[1] = 138
    /\ Len(output_frames) = 2

(***************************************************************************)
(* read() after a read() that failed (src/xbee/xbee.py).                   *)
(***************************************************************************)
\* one bit flipped behind the header, in a byte that neither is nor becomes
\* the escape byte: the length field and the escaping stay intact
IntactFlips(payload) ==
    {f \in Faults(payload) :
        /\ f.kind = "flip"
        /\ _prepare_write(payload)[f.pos] # EscapeByte
        /\ FlipBit(_prepare_write(payload)[f.pos], f.bit) # EscapeByte}

\* the peer sends a frame the line damages and a second one it leaves alone
PeerSendPair ==
    /\ sent = <<>>
    /\ op = "idle"
    /\ result.kind = "none"
    /\ \E first \in SessionPayloads : \E fault \in IntactFlips(first) :
       \E second \in SessionPayloads :
            /\ sent' = << [payload |-> first, fault |-> fault],
                          [payload |-> second, fault |-> NoFault] >>
            /\ wire' = PeerFrame(first, fault) \o PeerFrame(second, NoFault)
    /\ UNCHANGED << now, inbuf, op, rpc, tstart, length_high, length_low, msg_length,
                    msg, raised, result, consumed, expired >>
    /\ UNCHANGED << loopVars, sendVars, allocVars, packVars >>

\* the line delivers, between the calls and during them
LineArrives == \E k \in {1, Len(wire)} : Deliver(k)

\* the application calls read() again and again, whatever the last call gave
NextRecover ==
    \/ PeerSendPair
    \/ LineArrives
    \/ ReadBegin
    \/ ReadLengthHigh
    \/ ReadLengthLow
    \/ ReadMessageByte
    \/ ReadEscaped
    \/ ReadFinish

SpecRecover == Init /\ [][NextRecover]_vars

\* the number of line bytes the calls of read() have taken so far
Taken == Len(LineFrom(1)) - Len(inbuf \o wire)

\* a call of read() that took bytes is through
ReadTookBytes == Len(sent) = 2 /\ op = "idle" /\ result.kind # "none" /\ consumed > 0

\* C18: the read() of the damaged frame raises "Checksum incorrect", having
\* taken the bytes of that frame and no more (no retry); it leaves no error
\* behind in the session (the locals of the read are gone, the pacing state is
\* as it was); and the read() that takes the following frame returns that
\* frame, decoded.
C18_ErrorsNonFatal ==
    ReadTookBytes =>
        LET first == Len(PeerFrame(sent[1].payload, sent[1].fault))
        IN  /\ Taken \in {first, Len(LineFrom(1))}
            /\ Taken = first =>
                    /\ result = Raised("Checksum incorrect")
                    /\ consumed = first
                    /\ inbuf \o wire = LineFrom(2)
            /\ Taken = Len(LineFrom(1)) =>
                    /\ result = Returned(Decoded(2))
                    /\ consumed = Len(LineFrom(2))
            /\ rpc = "none" /\ raised = "none" /\ msg = <<>> /\ ~expired
            /\ last_message = 0 /\ motor_unblocked = 0 /\ wpc = "none"

\* the second read() has returned the frame behind the damaged one
C18_Witness ==
    /\ ReadTookBytes
    /\ Taken = Len(LineFrom(1))
    /\ sent[1].fault.kind = "flip"
    /\ result = Returned(Decoded(2))

(***************************************************************************)
(* XBee.clear_incoming, and the reads and waits after it                   *)
(* (src/xbee/xbee.py).                                                     *)
(***************************************************************************)
\* the number of line bytes that have reached the port so far
Arrived == Len(LineFrom(1)) - Len(wire)

\* lines 282-287: reset_input_buffer() empties the port's input buffer
ClearIncomingMutant ==
    /\ op = "idle"
    /\ caller = "none"
    /\ result' = NoResult
    /\ cleared' = Arrived
    /\ UNCHANGED << now, wire, inbuf, rpc, tstart, length_high, length_low, msg_length,
                    msg, raised, op, consumed, expired, sent >>
    /\ UNCHANGED << _next_frame, issued, allocs >>
    /\ UNCHANGED << loopVars, sendVars, packVars >>
ClearIncoming ==
    /\ op = "idle"
    /\ caller = "none"
    /\ inbuf' = <<>>
    /\ result' = NoResult
    /\ cleared' = Arrived
    /\ UNCHANGED << now, wire, rpc, tstart, length_high, length_low, msg_length,
                    msg, raised, op, consumed, expired, sent >>
    /\ UNCHANGED << _next_frame, issued, allocs >>
    /\ UNCHANGED << loopVars, sendVars, packVars >>

\* the peer sends while the session is between two calls
PeerSendAnyTime ==
    /\ Len(sent) < MaxFrames - 1
    /\ \E payload \in SessionPayloads :
            /\ sent' = Append(sent, [payload |-> payload, fault |-> NoFault])
            /\ wire' = wire \o PeerFrame(payload, NoFault)
    /\ op = "idle"
    /\ UNCHANGED << now, inbuf, op, rpc, tstart, length_high, length_low, msg_length,
                    msg, raised, result, consumed, expired >>
    /\ UNCHANGED << loopVars, sendVars, allocVars, packVars >>

\* the line delivers at any time; a byte that is not there when a wait
\* expires is late for that wait
ArriveAnyTime ==
    /\ ~(Blocked /\ now >= tstart + conn_timeout)
    /\ LineArrives

\* the one call of clear_incoming that is followed
ClearOnce == cleared = -1 /\ ClearIncoming

\* read() is called after the clear
ReadAfterClear == cleared >= 0 /\ ReadBegin

\* read_until_frame_id is called after the clear, for the one frame ID the
\* peer answers with
WaitAfterClear ==
    /\ cleared >= 0
    /\ caller = "none"
    /\ ReadUntilCall(6)
    /\ UNCHANGED << caller, except_on_not_status >>

NextClear ==
    \/ PeerSendAnyTime
    \/ ArriveAnyTime
    \/ ClearOnce
    \/ ReadAfterClear
    \/ ReadFinish
    \/ WaitAfterClear
    \/ LoopPoll
    \/ LoopSpin
    \/ LoopGotFrame
    \/ LoopExit
    \/ ReadLengthHigh
    \/ ReadLengthLow
    \/ ReadMessageByte
    \/ ReadEscaped
    \/ WaitTick

SpecClear == Init /\ [][NextClear]_vars

\* the offset on the line of the first byte of the i-th frame the peer sent
FrameStart(i) == Len(LineFrom(1)) - Len(LineFrom(i))

\* the frames first .. first + n - 1 the peer sent all reached the port after
\* the latest clear_incoming, and the session has taken the line up to the end
\* of the last of them
TakenSinceClear(first, n) ==
    /\ first + n - 1 <= Len(sent)
    /\ FrameStart(first) >= cleared
    /\ Taken = FrameStart(first + n)

\* C19: clear_incoming empties the input buffer and changes nothing else of
\* the session, the pacing state included.  Until the next byte arrives
\* read_available is false and a read() returns the empty list.  Whatever a
\* later read() or read_until_frame_id returns was decoded from bytes that
\* reached the port after the clear: a frame of which a byte was buffered at
\* the clear is never returned.
C19_ClearIncoming ==
    /\ [][cleared' # cleared =>
            /\ inbuf' = <<>>
            /\ UNCHANGED << now, wire, sent, op, rpc, loopVars, sendVars >>]_vars
    /\ []((cleared >= 0 /\ Arrived = cleared) =>
            /\ inbuf = <<>>
            /\ result.kind # "none" => result \in {Returned(<<>>), ReturnedFrames(<<>>)})
    /\ []((cleared >= 0 /\ op = "idle" /\ result.kind = "return") =>
            /\ result.frame # <<>> =>
                    \E j \in 1..Len(sent) :
                        TakenSinceClear(j, 1) /\ result.frame = Decoded(j)
            /\ result.frames # <<>> =>
                    \E j \in 1..Len(sent) :
                        /\ TakenSinceClear(j, Len(result.frames))
                        /\ \A i \in 1..Len(result.frames) :
                                result.frames[i] = Decoded(j + i - 1))

\* a frame was in the buffer at the clear; the read() after the clear returned
\* the frame that arrived behind it
C19_Witness ==
    /\ cleared > 0
    /\ op = "idle"
    /\ Len(sent) = 2
    /\ cleared = FrameStart(2)
    /\ result = Returned(Decoded(2))
====
